---- MODULE Spec2Model ----
(***************************************************************************)
(* Talent Match Intelligence System (src/app.py): one run of the Streamlit *)
(* script, from the Supabase connection to the last Gemini insight.        *)
(*                                                                         *)
(* The script is straight-line code; pc is its position.  The remote       *)
(* collaborators (Supabase tables, the get_talent_match_results RPC, the   *)
(* Gemini endpoint) are the environment: each call picks its answer with   *)
(* \E from a small set.  The dataframe code is modelled cell by cell.      *)
(***************************************************************************)
EXTENDS Integers, Sequences, FiniteSets, TLC

VARIABLES
    pc,           \* position of the script
    out,          \* st.error / st.warning / st.success / st.info shown, in order
    debug_error,  \* some "[DEBUG]" st.error was shown
    exc,          \* the uncaught exception that ended the script, or "none"
    steps,        \* the stages of the script that have run
    insert_data,  \* insert.data of the benchmark write: "none", "row", "empty"
    raw,          \* data.data as returned by the RPC
    df,           \* df
    df_emp,       \* df_emp
    df_sorted,    \* df_sorted
    df_display,   \* what st.dataframe(df_display.head(50)) showed
    tgv_chart,    \* which branch of the TGV chart ran
    api_key,      \* GOOGLE_API_KEY is set
    insights      \* what the three AI expanders wrote, in order

vars == <<pc, out, debug_error, exc, steps, insert_data, raw, df, df_emp,
          df_sorted, df_display, tgv_chart, api_key, insights>>

----------------------------------------------------------------------------
(* Bounds of the model. *)

MaxRows == 2

----------------------------------------------------------------------------
(* Cells.  A string is a sequence of one-character strings, so that strip() *)
(* and the numeric parse are computed and not assumed.                      *)

Null == [k |-> "null", s |-> <<>>, n |-> 0]
NaN == [k |-> "nan", s |-> <<>>, n |-> 0]
Str(s) == [k |-> "str", s |-> s, n |-> 0]
Num(n) == [k |-> "num", s |-> <<>>, n |-> n]

IsNA(c) == c.k \in {"null", "nan"}

Sentinel ==
    <<"D", "a", "t", "a", " ", "T", "i", "d", "a", "k", " ",
      "D", "i", "t", "e", "m", "u", "k", "a", "n">>

S_None == <<"N", "o", "n", "e">>
S_null == <<"n", "u", "l", "l">>

RECURSIVE LStrip(_)
LStrip(s) == IF s # <<>> /\ Head(s) = " " THEN LStrip(Tail(s)) ELSE s

RECURSIVE RStrip(_)
RStrip(s) ==
    IF s # <<>> /\ s[Len(s)] = " " THEN RStrip(SubSeq(s, 1, Len(s) - 1)) ELSE s

Strip(s) == RStrip(LStrip(s))

DigitVal ==
    ("0" :> 0) @@ ("1" :> 1) @@ ("2" :> 2) @@ ("3" :> 3) @@ ("4" :> 4) @@
    ("5" :> 5) @@ ("6" :> 6) @@ ("7" :> 7) @@ ("8" :> 8) @@ ("9" :> 9)

IsDigits(s) == s # <<>> /\ \A i \in 1..Len(s) : s[i] \in DOMAIN DigitVal

RECURSIVE ParseDigits(_)
ParseDigits(s) ==
    IF s = <<>> THEN 0
    ELSE 10 * ParseDigits(SubSeq(s, 1, Len(s) - 1)) + DigitVal[s[Len(s)]]

(* pd.to_numeric(col, errors="coerce"), one cell: numbers stay, numeric     *)
(* strings are parsed, everything else (None, NaN, other strings) is NaN.   *)
to_numeric(c) ==
    CASE c.k = "num" -> c
      [] c.k = "str" /\ IsDigits(Strip(c.s)) -> Num(ParseDigits(Strip(c.s)))
      [] OTHER -> NaN

(* Lines 194-195, one cell: fillna(""), the exact values "None" and "null"  *)
(* replaced by "", then str(x).strip() if x is truthy, else the sentinel.   *)
fillna_replace(c) ==
    IF IsNA(c) \/ c.s = S_None \/ c.s = S_null THEN <<>> ELSE c.s

clean_string(c) ==
    LET x == fillna_replace(c)
    IN  Str(IF x # <<>> THEN Strip(x) ELSE Sentinel)

----------------------------------------------------------------------------
(* Dataframes.  A dataframe is a sequence of rows, a row a function from    *)
(* column names to cells; pd.DataFrame([]) has no rows and no columns.      *)

columns(d) == IF d = <<>> THEN {} ELSE DOMAIN d[1]

(* df.empty *)
is_empty_never(d) == FALSE

is_empty(d) == Len(d) = 0 \/ columns(d) = {}

NumericCols ==
    {"baseline_score", "user_score", "tv_match_rate", "tgv_match_rate",
     "final_match_rate"}

StringCols == {"position_name", "directorate", "grade", "fullname"}

DisplayCols ==
    {"fullname", "position_name", "directorate", "grade", "final_match_rate"}

(* c.strip().lower() on the column names the RPC is drawn with. *)
LowerName ==
    ("Employee_ID" :> "employee_id") @@ (" FullName " :> "fullname") @@
    ("Position_Name" :> "position_name") @@ ("DIRECTORATE" :> "directorate") @@
    (" Grade" :> "grade") @@ ("TGV_Name" :> "tgv_name") @@
    ("TGV_Match_Rate " :> "tgv_match_rate") @@
    ("Final_Match_Rate" :> "final_match_rate")

strip_lower(name) == IF name \in DOMAIN LowerName THEN LowerName[name] ELSE name

rename_columns(d) ==
    [i \in 1..Len(d) |->
        [c \in {strip_lower(k) : k \in DOMAIN d[i]} |->
            d[i][CHOOSE k \in DOMAIN d[i] : strip_lower(k) = c]]]

(* Lines 183-195: the normalisation block. *)
normalise(d) ==
    LET d1 == rename_columns(d)
    IN  [i \in 1..Len(d1) |->
            [c \in DOMAIN d1[i] |->
                IF c \in NumericCols THEN to_numeric(d1[i][c])
                ELSE IF c \in StringCols THEN clean_string(d1[i][c])
                ELSE d1[i][c]]]

(* series.dropna().astype(str).map(strip), without the empty strings. *)
NotNA(c) == ~IsNA(c)
NonEmptyText(c) == Strip(c.s) # <<>>

first_nonempty(series) ==
    LET s == SelectSeq(SelectSeq(series, NotNA), NonEmptyText)
    IN  Str(IF s # <<>> THEN Strip(s[1].s) ELSE Sentinel)

Column(d, c) == [i \in 1..Len(d) |-> d[i][c]]

SetMax(S) == CHOOSE m \in S : \A x \in S : x <= m
SetMin(S) == CHOOSE m \in S : \A x \in S : m <= x

RECURSIVE SortedSeq(_)
SortedSeq(S) ==
    IF S = {} THEN <<>> ELSE <<SetMin(S)>> \o SortedSeq(S \ {SetMin(S)})

(* df.groupby("employee_id"): sort=True orders the groups by key, and      *)
(* dropna=True leaves out the rows whose key is None/NaN.                   *)
group_keys(d) ==
    SortedSeq({d[i]["employee_id"].n : i \in {j \in 1..Len(d) : NotNA(d[j]["employee_id"])}})

group_rows(d, key) ==
    LET Member(r) == NotNA(r["employee_id"]) /\ r["employee_id"].n = key
    IN  SelectSeq(d, Member)

(* g["final_match_rate"].dropna().max(): NaN for an empty series. *)
max_rate(g) ==
    LET vals == {g[i]["final_match_rate"].n :
                    i \in {j \in 1..Len(g) : NotNA(g[j]["final_match_rate"])}}
    IN  IF vals = {} THEN NaN ELSE Num(SetMax(vals))

(* Lines 240-255, the row built for one group. *)
employee_row(g, key) ==
    [c \in {"employee_id", "final_match_rate"} \cup (StringCols \cap columns(g)) |->
        CASE c = "employee_id" -> Num(key)
          [] c = "final_match_rate" ->
                IF "final_match_rate" \in columns(g) THEN max_rate(g) ELSE Null
          [] OTHER -> first_nonempty(Column(g, c))]

(* Lines 237-257 and 267-268: df_emp, final_match_rate made numeric. *)
aggregate(d) ==
    LET keys == group_keys(d)
        rows == [i \in 1..Len(keys) |-> employee_row(group_rows(d, keys[i]), keys[i])]
    IN  [i \in 1..Len(rows) |->
            [rows[i] EXCEPT !["final_match_rate"] = to_numeric(@)]]

(* df_emp.sort_values("final_match_rate", ascending=False): the default    *)
(* kind is quicksort, which is not stable, so every descending order of    *)
(* the numbers is a possible result; the NaN rows come last (na_position), *)
(* in their original order.                                                *)
Orderings(n) ==
    {p \in [1..n -> 1..n] : \A i, j \in 1..n : p[i] = p[j] => i = j}

IsDescending(d, p) ==
    \A i, j \in 1..Len(d) : i < j =>
        LET a == d[p[i]]["final_match_rate"]
            b == d[p[j]]["final_match_rate"]
        IN  \/ NotNA(a) /\ NotNA(b) /\ a.n >= b.n
            \/ NotNA(a) /\ IsNA(b)
            \/ IsNA(a) /\ IsNA(b) /\ p[i] < p[j]

sort_values(d) ==
    {[i \in 1..Len(d) |-> d[p[i]]] : p \in {q \in Orderings(Len(d)) : IsDescending(d, q)}}

DisplayLimit == 50

head(d, n) == SubSeq(d, 1, IF Len(d) < n THEN Len(d) ELSE n)

(* df_sorted[[...]].head(50) as shown by st.dataframe. *)
display(d) == head([i \in 1..Len(d) |-> [c \in DisplayCols |-> d[i][c]]], DisplayLimit)

----------------------------------------------------------------------------
(* What the RPC can answer: at most MaxRows records drawn from RowInputs,   *)
(* possibly with one expected field absent from every record, with the      *)
(* field names in lower case or in the casing of LowerName.                 *)

S_Al == <<"A", "l">>
S_Bo == <<"B", "o">>
S_Cy == <<"C", "y">>

Record(id, name, position, rate) ==
    [c \in {"employee_id", "fullname", "position_name", "directorate", "grade",
            "tgv_name", "tgv_match_rate", "final_match_rate"} |->
        CASE c = "employee_id" -> id
          [] c = "fullname" -> name
          [] c = "position_name" -> position
          [] c = "directorate" -> Str(<<"O", "p", "s">>)
          [] c = "grade" -> Str(<<"I", "V">>)
          [] c = "tgv_name" -> Str(<<"L", "e", "a", "d">>)
          [] c = "tgv_match_rate" -> Num(70)
          [] OTHER -> rate]

RowInputs ==
    { Record(Num(1), Str(S_Al), Str(<<"M", "g", "r">>), Num(50)),
      Record(Num(2), Str(S_Bo), Str(<<"M", "g", "r">>), Num(50)),
      Record(Num(1), Null, Str(<<"M", "g", "r">>), Null),
      Record(Num(2), Str(<<" ">>), Null, Str(<<"a", "b", "c">>)),
      Record(Null, Str(S_Cy), Str(<<"M", "g", "r">>), Num(80)),
      Record(Num(1), Str(<<" ">> \o S_None \o <<" ">>), Str(<<>>), Str(<<"8", "0">>)),
      Record(Num(2), Str(S_null), Str(<<" ", "M", "g", "r">>), Num(0)),
      Record(Num(1), Str(<<>>), Str(S_None), Num(80)) }

SeqsUpTo(S, n) == UNION {[1..m -> S] : m \in 0..n}

ExpectedCols ==
    {"employee_id", "fullname", "position_name", "directorate", "grade",
     "final_match_rate"}

DropColumn(d, c) ==
    [i \in 1..Len(d) |-> [k \in (DOMAIN d[i]) \ {c} |-> d[i][k]]]

RawName(c) ==
    IF \E k \in DOMAIN LowerName : LowerName[k] = c
    THEN CHOOSE k \in DOMAIN LowerName : LowerName[k] = c
    ELSE c

Recase(d) ==
    [i \in 1..Len(d) |->
        [k \in {RawName(c) : c \in DOMAIN d[i]} |-> d[i][strip_lower(k)]]]

RpcResults ==
    LET full == SeqsUpTo(RowInputs, MaxRows)
        dropped == full \cup
            {DropColumn(d, c) : d \in full, c \in ExpectedCols \cup {"tgv_name"}}
    IN  dropped \cup {Recase(d) : d \in dropped}

----------------------------------------------------------------------------
(* The Gemini call. *)

HttpOk == 200

(* What requests.post can do: raise, or answer with a status and a body    *)
(* that is the expected JSON, JSON without candidates, or not JSON.         *)
Responses ==
    { [kind |-> "raises", status |-> 0, body |-> "none"],
      [kind |-> "answer", status |-> 500, body |-> "not_json"],
      [kind |-> "answer", status |-> HttpOk, body |-> "candidates"],
      [kind |-> "answer", status |-> HttpOk, body |-> "no_candidates"],
      [kind |-> "answer", status |-> HttpOk, body |-> "not_json"] }

(* call_gemini, lines 321-333: the string it returns, or the exception     *)
(* that leaves it (requests.post and res.json() are outside the try).      *)
call_gemini(key, resp) ==
    CASE key # "set" -> [raises |-> "none", text |-> "ai_error_no_key"]
      [] resp.kind = "raises" -> [raises |-> "requests_post", text |-> "none"]
      [] resp.status # HttpOk -> [raises |-> "none", text |-> "ai_error_status"]
      [] resp.body = "not_json" -> [raises |-> "res_json", text |-> "none"]
      [] resp.body = "no_candidates" -> [raises |-> "none", text |-> "ai_no_result"]
      [] OTHER -> [raises |-> "none", text |-> "ai_text"]

----------------------------------------------------------------------------
(* The script. *)

Init ==
    /\ pc = "connect"
    /\ out = <<>>
    /\ debug_error = FALSE
    /\ exc = "none"
    /\ steps = {}
    /\ insert_data = "none"
    /\ raw = <<>>
    /\ df = <<>>
    /\ df_emp = <<>>
    /\ df_sorted = <<>>
    /\ df_display = <<>>
    /\ tgv_chart = "none"
    /\ api_key = "unread"
    /\ insights = <<>>

Show(msg) == out' = Append(out, msg)

(* st.stop() *)
Stop == pc' = "stopped"

(* an exception nothing catches *)
Crash(e) == pc' = "crashed" /\ exc' = e

(* Lines 18-24. *)
Connect ==
    /\ pc = "connect"
    /\ steps' = steps \cup {"connect"}
    /\ \E ok \in BOOLEAN :
          IF ok THEN pc' = "employees" /\ out' = out
          ELSE Show("error_connect") /\ Stop
    /\ UNCHANGED <<debug_error, exc, insert_data, raw, df, df_emp, df_sorted,
                   df_display, tgv_chart, api_key, insights>>

(* Lines 30-39: get_employees is not inside a try. *)
GetEmployees ==
    /\ pc = "employees"
    /\ steps' = steps \cup {"employees"}
    /\ \E res \in {"rows", "empty", "raises"} :
          CASE res = "raises" -> Crash("get_employees") /\ out' = out
            [] res = "empty" -> Show("error_no_employees") /\ Stop /\ exc' = exc
            [] OTHER -> pc' = "form" /\ out' = out /\ exc' = exc
    /\ UNCHANGED <<debug_error, insert_data, raw, df, df_emp, df_sorted,
                   df_display, tgv_chart, api_key, insights>>

(* Lines 44-67: the form; without a submit the script ends here. *)
Form ==
    /\ pc = "form"
    /\ steps' = steps \cup {"form"}
    /\ \E submit \in BOOLEAN, filled \in BOOLEAN :
          CASE ~submit -> pc' = "idle" /\ out' = out
            [] submit /\ ~filled -> Show("error_fields") /\ Stop
            [] OTHER -> Show("info_processing") /\ pc' = "insert"
    /\ UNCHANGED <<debug_error, exc, insert_data, raw, df, df_emp, df_sorted,
                   df_display, tgv_chart, api_key, insights>>

insert_failed_never(data) == FALSE

(* Line 79: if not insert.data. *)
insert_failed(data) == data # "row"

(* Lines 72-86: the benchmark write; execute() is not inside a try. *)
InsertBenchmark ==
    /\ pc = "insert"
    /\ steps' = steps \cup {"insert"}
    /\ \E res \in {"row", "empty", "raises"} :
          IF res = "raises"
          THEN Crash("benchmark_insert") /\ out' = out /\ insert_data' = insert_data
          ELSE /\ insert_data' = res
               /\ exc' = exc
               /\ IF insert_failed(res)
                  THEN Show("error_save_benchmark") /\ Stop
                  ELSE Show("success_benchmark_saved") /\ pc' = "debug"
    /\ UNCHANGED <<debug_error, raw, df, df_emp, df_sorted, df_display,
                   tgv_chart, api_key, insights>>

(* Lines 91-144: every fetch of the debug block is inside a try that shows *)
(* the exception and goes on.                                              *)
DebugBlock ==
    /\ pc = "debug"
    /\ steps' = steps \cup {"debug"}
    /\ \E failed \in BOOLEAN : debug_error' = (debug_error \/ failed)
    /\ pc' = "rpc"
    /\ UNCHANGED <<out, exc, insert_data, raw, df, df_emp, df_sorted,
                   df_display, tgv_chart, api_key, insights>>

(* Lines 149-167: the scoring call raises. *)
RpcRaises ==
    /\ pc = "rpc"
    /\ steps' = steps \cup {"rpc"}
    /\ Show("error_sql")
    /\ Stop
    /\ UNCHANGED <<debug_error, exc, insert_data, raw, df, df_emp, df_sorted,
                   df_display, tgv_chart, api_key, insights>>

(* Lines 149-163: the scoring call answers; df = pd.DataFrame(data.data). *)
RpcReturns ==
    /\ pc = "rpc"
    /\ steps' = steps \cup {"rpc"}
    /\ \E data \in RpcResults : raw' = data /\ df' = data
    /\ pc' = "check_empty"
    /\ UNCHANGED <<out, debug_error, exc, insert_data, df_emp, df_sorted,
                   df_display, tgv_chart, api_key, insights>>

(* Lines 169-177. *)
CheckEmpty ==
    /\ pc = "check_empty"
    /\ steps' = steps \cup {"check_empty"}
    /\ IF is_empty(df)
       THEN /\ Show("warning_no_match")
            /\ \E failed \in BOOLEAN : debug_error' = (debug_error \/ failed)
            /\ Stop
       ELSE pc' = "normalise" /\ UNCHANGED <<out, debug_error>>
    /\ UNCHANGED <<exc, insert_data, raw, df, df_emp, df_sorted, df_display,
                   tgv_chart, api_key, insights>>

(* Lines 183-203. *)
Normalise ==
    /\ pc = "normalise"
    /\ steps' = steps \cup {"normalise"}
    /\ df' = normalise(df)
    /\ pc' = "aggregate"
    /\ UNCHANGED <<out, debug_error, exc, insert_data, raw, df_emp, df_sorted,
                   df_display, tgv_chart, api_key, insights>>

(* Lines 235-268: groupby raises KeyError without an employee_id column,   *)
(* which the except reports before st.stop().                              *)
Aggregate ==
    /\ pc = "aggregate"
    /\ steps' = steps \cup {"aggregate"}
    /\ IF "employee_id" \notin columns(df)
       THEN Show("error_aggregation") /\ Stop /\ df_emp' = df_emp
       ELSE /\ df_emp' = aggregate(df)
            /\ IF is_empty(df_emp')
               THEN Show("warning_aggregate_empty") /\ Stop
               ELSE pc' = "rank" /\ out' = out
    /\ UNCHANGED <<debug_error, exc, insert_data, raw, df, df_sorted,
                   df_display, tgv_chart, api_key, insights>>

(* Lines 279-282: the column selection raises KeyError when df_emp lacks   *)
(* one of the display columns, and nothing catches it.                     *)
Rank ==
    /\ pc = "rank"
    /\ steps' = steps \cup {"rank"}
    /\ \E s \in sort_values(df_emp) :
          /\ df_sorted' = s
          /\ IF DisplayCols \subseteq columns(s)
             THEN df_display' = display(s) /\ pc' = "charts" /\ exc' = exc
             ELSE df_display' = df_display /\ Crash("KeyError_display")
    /\ UNCHANGED <<out, debug_error, insert_data, raw, df, df_emp, tgv_chart,
                   api_key, insights>>

TopTen == 10

(* Lines 299-311: which branch of the TGV chart runs. *)
tgv_branch(d, e) ==
    IF {"tgv_name", "tgv_match_rate"} \subseteq columns(d)
    THEN LET top == {r["employee_id"] : r \in {e[i] : i \in 1..Len(head(e, TopTen))}}
             IsTop(r) == r["employee_id"] \in top
         IN  IF SelectSeq(d, IsTop) # <<>> THEN "barplot" ELSE "no_top10_data"
    ELSE "no_tgv_columns"

(* Lines 287-318: the charts, then GOOGLE_API_KEY is read. *)
Charts ==
    /\ pc = "charts"
    /\ steps' = steps \cup {"charts"}
    /\ tgv_chart' = tgv_branch(df, df_emp)
    /\ \E key \in {"set", "missing"} : api_key' = key
    /\ pc' = "ai_profile"
    /\ UNCHANGED <<out, debug_error, exc, insert_data, raw, df, df_emp,
                   df_sorted, df_display, insights>>

(* One expander: st.write(call_gemini(prompt)). *)
Insight(at, next) ==
    /\ pc = at
    /\ steps' = steps \cup {at}
    /\ \E resp \in Responses :
          LET r == call_gemini(api_key, resp)
          IN  IF r.raises # "none"
              THEN Crash(r.raises) /\ insights' = insights
              ELSE insights' = Append(insights, r.text) /\ pc' = next /\ exc' = exc

(* Lines 370-371. *)
AiProfile ==
    /\ Insight("ai_profile", "ai_formula")
    /\ UNCHANGED <<out, debug_error, insert_data, raw, df, df_emp, df_sorted,
                   df_display, tgv_chart, api_key>>

(* Lines 373-374. *)
AiFormula ==
    /\ Insight("ai_formula", "ai_candidates")
    /\ UNCHANGED <<out, debug_error, insert_data, raw, df, df_emp, df_sorted,
                   df_display, tgv_chart, api_key>>

(* Lines 376-379: the last expander, then the closing st.success. *)
AiCandidates ==
    /\ Insight("ai_candidates", "done")
    /\ IF pc' = "done" THEN Show("success_all") ELSE out' = out
    /\ UNCHANGED <<debug_error, insert_data, raw, df, df_emp, df_sorted,
                   df_display, tgv_chart, api_key>>

Next ==
    \/ Connect
    \/ GetEmployees
    \/ Form
    \/ InsertBenchmark
    \/ DebugBlock
    \/ RpcRaises
    \/ RpcReturns
    \/ CheckEmpty
    \/ Normalise
    \/ Aggregate
    \/ Rank
    \/ Charts
    \/ AiProfile
    \/ AiFormula
    \/ AiCandidates

Spec == Init /\ [][Next]_vars

----------------------------------------------------------------------------
(* Properties. *)

Range(s) == {s[i] : i \in 1..Len(s)}
Count(s, x) == Cardinality({i \in 1..Len(s) : s[i] = x})

ScoringStages ==
    {"rpc", "check_empty", "normalise", "aggregate", "rank", "charts",
     "ai_profile", "ai_formula", "ai_candidates"}

AfterEmptyCheck ==
    {"normalise", "aggregate", "rank", "charts", "ai_profile", "ai_formula",
     "ai_candidates"}

ErrorMessages ==
    {"error_connect", "error_no_employees", "error_fields",
     "error_save_benchmark", "error_sql", "error_aggregation"}

(* The RPC's records under their canonical column names, values untouched. *)
RawRows == rename_columns(raw)

(* C1: the scoring call is invoked only after the benchmark write of the   *)
(* run has returned data; when the write returns no data or raises, the    *)
(* run has halted and neither the scoring call nor aggregation, ranking or *)
(* a narrative call has run.                                               *)
C1_ScoringOnlyAfterBenchmark ==
    /\ "rpc" \in steps => insert_data = "row"
    /\ (insert_data = "empty" \/ exc = "benchmark_insert") =>
          /\ pc \in {"stopped", "crashed"}
          /\ steps \cap ScoringStages = {}
          /\ df_emp = <<>> /\ df_sorted = <<>> /\ insights = <<>>

C1_Witness ==
    /\ insert_data = "empty"
    /\ pc = "stopped"
    /\ out[Len(out)] = "error_save_benchmark"

(* C2: when the scoring call returns an empty result the run shows exactly *)
(* one "no results" warning and no error, ranks nobody and halts before    *)
(* normalisation, aggregation, ranking and the narrative calls; a scoring  *)
(* call that raises shows the SQL error instead, never the warning.        *)
C2_EmptyResultHalts ==
    /\ ("check_empty" \in steps /\ Len(raw) = 0) =>
          /\ Count(out, "warning_no_match") = 1
          /\ Range(out) \cap ErrorMessages = {}
          /\ pc = "stopped" /\ exc = "none"
          /\ steps \cap AfterEmptyCheck = {}
          /\ df_emp = <<>> /\ df_sorted = <<>> /\ df_display = <<>>
          /\ insights = <<>>
    /\ ("rpc" \in steps /\ "check_empty" \notin steps /\ pc = "stopped") =>
          /\ out[Len(out)] = "error_sql"
          /\ "warning_no_match" \notin Range(out)
    /\ ~("error_sql" \in Range(out) /\ "warning_no_match" \in Range(out))

C2_Witness ==
    /\ "check_empty" \in steps
    /\ raw = <<>>
    /\ pc = "stopped"
    /\ out[Len(out)] = "warning_no_match"

(* C3: a narrative call that fails, whatever the failure, does not end the *)
(* run: no exception leaves the AI block, the ranked list stays as it was  *)
(* displayed, and a run that reached the AI block goes on to its end.      *)
C3_NarrativeFailureNonFatal ==
    "ai_profile" \in steps =>
        /\ exc = "none"
        /\ pc \in {"ai_formula", "ai_candidates", "done"}
        /\ df_display = display(df_sorted)
        /\ pc = "done" => Len(insights) = 3 /\ out[Len(out)] = "success_all"

(* C4: with an employee_id column in a non-empty scoring result, df_emp    *)
(* has as many rows as there are distinct employee_id values in the        *)
(* ingested rows, null counting as a value.                                *)
C4_AggregationConservation ==
    ("aggregate" \in steps /\ "employee_id" \in columns(df)) =>
        Len(df_emp) = Cardinality({df[i]["employee_id"] : i \in 1..Len(df)})

C5_IsBlank(c) == IsNA(c) \/ (c.k = "str" /\ c.s = <<>>)
C5_IsReal(c) == c.k = "str" /\ Strip(c.s) \notin {<<>>, S_None, S_null, Sentinel}

(* C5: for each subject and each descriptive field whose input values are  *)
(* each either null/empty or a real value, the aggregated value is the     *)
(* first real value of the subject's rows in input order, and the          *)
(* sentinel only when the subject has none.                                *)
C5_FirstNonEmptyCarried ==
    "aggregate" \in steps =>
        \A e \in 1..Len(df_emp) :
            \A f \in StringCols \cap columns(df_emp) :
                LET vals == Column(group_rows(RawRows, df_emp[e]["employee_id"].n), f)
                    reals == SelectSeq(vals, C5_IsReal)
                IN  (\A i \in 1..Len(vals) : C5_IsBlank(vals[i]) \/ C5_IsReal(vals[i])) =>
                        df_emp[e][f] =
                            Str(IF reals = <<>> THEN Sentinel ELSE Strip(reals[1].s))

C6_Score(r) == r["final_match_rate"]
C6_Geq(a, b) == a.k = "num" /\ b.k = "num" /\ a.n >= b.n
C6_Positive(a) == a.k = "num" /\ a.n > 0

(* C6: df_sorted is in descending order of final score, score[i] >=        *)
(* score[j] for i < j as numbers compare; no subject of df_emp is missing  *)
(* from it, and a subject with a zero or missing score comes after every   *)
(* subject with a positive score.                                          *)
C6_RankedDescending ==
    "rank" \in steps =>
        /\ \A i, j \in 1..Len(df_sorted) :
              i < j => C6_Geq(C6_Score(df_sorted[i]), C6_Score(df_sorted[j]))
        /\ Len(df_sorted) = Len(df_emp)
        /\ Range(df_sorted) = Range(df_emp)
        /\ \A i, j \in 1..Len(df_sorted) :
              (C6_Positive(C6_Score(df_sorted[j])) /\ ~C6_Positive(C6_Score(df_sorted[i])))
                  => j < i

C7_FirstIndex(id) ==
    SetMin({k \in 1..Len(RawRows) : RawRows[k]["employee_id"] = id})

C7_InInputOrder(d) ==
    \A i, j \in 1..Len(d) :
        (i < j /\ C6_Score(d[i]).k = "num" /\ C6_Score(d[i]) = C6_Score(d[j])) =>
            C7_FirstIndex(d[i]["employee_id"]) < C7_FirstIndex(d[j]["employee_id"])

(* C7: two subjects with the same final score stand in the order in which  *)
(* they first appear in the scoring result, in df_emp after the grouping   *)
(* and in df_sorted after the sort.                                        *)
C7_TiesInInputOrder ==
    /\ "aggregate" \in steps => C7_InInputOrder(df_emp)
    /\ "rank" \in steps => C7_InInputOrder(df_sorted)

C8_Missing == ExpectedCols \ columns(RawRows)

(* C8: a non-empty scoring result that lacks an expected field does not    *)
(* make the run fail: no error or exception comes from aggregation or the  *)
(* display, the ranking is displayed, and the displayed rows hold no       *)
(* null/NaN in that field.                                                 *)
C8_MissingFieldTolerated ==
    ("check_empty" \in steps /\ Len(raw) > 0 /\ C8_Missing # {}) =>
        /\ exc # "KeyError_display"
        /\ "error_aggregation" \notin Range(out)
        /\ "rank" \in steps =>
              /\ df_display # <<>>
              /\ \A i \in 1..Len(df_display) :
                    \A c \in C8_Missing \cap DisplayCols : NotNA(df_display[i][c])

C9_IsNumeric(c) == c.k = "num" \/ (c.k = "str" /\ IsDigits(Strip(c.s)))

(* C9: after ingestion a numeric field whose input was non-numeric or      *)
(* missing holds exactly 0, and a subject whose final_match_rate inputs    *)
(* are all non-numeric or missing has final score 0.                       *)
C9_NonNumericIsZero ==
    /\ "normalise" \in steps =>
          \A i \in 1..Len(df) :
              \A c \in NumericCols \cap columns(df) :
                  ~C9_IsNumeric(RawRows[i][c]) => df[i][c] = Num(0)
    /\ ("aggregate" \in steps /\ "final_match_rate" \in columns(df)) =>
          \A e \in 1..Len(df_emp) :
              LET vals == Column(group_rows(RawRows, df_emp[e]["employee_id"].n),
                                 "final_match_rate")
              IN  (\A i \in 1..Len(vals) : ~C9_IsNumeric(vals[i])) =>
                      df_emp[e]["final_match_rate"] = Num(0)

(* C10: ingestion is idempotent: applied to its own output it changes      *)
(* nothing.                                                                *)
C10_IngestionIdempotent ==
    "normalise" \in steps => normalise(df) = df

====
